---- MODULE Spec2Model ----
(***************************************************************************)
(* Model of pluto_beamforming.py: the phase sweep driven by Qt single-shot *)
(* timers (update, start_sweep, one_shot, continuous) and the half-power   *)
(* beam-width annotation computed when a sweep finishes                    *)
(* (annotate_results).                                                     *)
(*                                                                         *)
(* The source fixes the sweep to -180 .. 180 in steps of 2 degrees.  A     *)
(* sweep of 181 points with free power readings is not enumerable, so the  *)
(* three numbers are carried in cfg and drawn from Configs: shorter sweeps *)
(* of the same shape.  Power readings are whole decibels from AmpValues,   *)
(* or -inf.                                                                *)
(* Values produced by np.interp are exact rationals <<num, den>>, den > 0. *)
(***************************************************************************)
EXTENDS Integers, Sequences, FiniteSets, TLC

\* Most timers (pending callbacks) the user's clicks may pile up.
MaxPending == 2

\* Sweeps the model runs: start, stop (line 215) and step (line 26).
Configs ==
  { [start |-> -10,  stop |-> 10,  step |-> 5],
    [start |-> -10,  stop |-> 10,  step |-> 10],
    [start |-> -10,  stop |-> 7,   step |-> 5],
    [start |-> -10,  stop |-> 0,   step |-> 10],
    [start |-> -360, stop |-> 360, step |-> 180] }

\* Readings 20*log10(pwr_lin) the radio may give for pwr_lin > 0, in dB.
AmpValues == {-10, -5, 0}

\* The reading for pwr_lin = 0: np.log10(0) is -inf (numpy warns, it does
\* not raise).  -inf is written as this number, below every finite reading;
\* half_db and interp treat it as IEEE arithmetic does.
neg_inf == -1000

VARIABLES
  cfg,        \* the sweep limits: -180 (lines 106, 227), 180 (215), phase_step (26)
  cur_phase,  \* line 106
  ph_hist,    \* line 107
  amp_hist,   \* line 107
  mode,       \* line 108
  beam,       \* lines 111-112: <<>> is None, <<r>> the drawn annotation
  timers,     \* pending QTimer.singleShot callbacks, by callback
  alive,      \* the Qt event loop (app.exec) is still running
  ev,         \* the handler that ran last, and how it ended
  radio,      \* sdr_tx, sdr_rx: the phase on the air and the calls of the
              \* last update(): rx() calls returned, which of them gave the
              \* analysed block and which the DC estimate (0: none)
  n_annot     \* calls of annotate_results() since the last start_sweep()

vars ==
  <<cfg, cur_phase, ph_hist, amp_hist, mode, beam, timers, alive, ev,
    radio, n_annot>>

----------------------------------------------------------------------------
\* Exact rationals.

Rat(n, d) == <<n, d>>
RatLt(a, b) == a[1] * b[2] < b[1] * a[2]
RatLe(a, b) == a[1] * b[2] <= b[1] * a[2]
RatEq(a, b) == a[1] * b[2] = b[1] * a[2]
RatSub(a, b) == Rat(a[1] * b[2] - b[1] * a[2], a[2] * b[2])

----------------------------------------------------------------------------
\* numpy, as the annotation uses it.

\* np.interp(x, xp, fp) for two-point xp, fp.  numpy does not check that xp
\* increases: it first tests x against the last and the first point
\* (returning fp's last or first value), then searches for the segment.
\* On a segment that starts at -inf the slope is 0 and 0 * inf is nan, in
\* which case numpy evaluates the line from the segment's other end.
interp(x, xp, fp) ==
  IF x > xp[2] THEN Rat(fp[2], 1)
  ELSE IF x < xp[1] THEN Rat(fp[1], 1)
  ELSE IF x >= xp[2] THEN Rat(fp[2], 1)
  ELSE IF x = xp[1] THEN Rat(fp[1], 1)
  ELSE IF xp[1] = neg_inf THEN Rat(fp[2], 1)
  ELSE Rat(fp[1] * (xp[2] - xp[1]) + (x - xp[1]) * (fp[2] - fp[1]),
           xp[2] - xp[1])

\* (mutant of argmax: the last index holding the maximum)
argmax_last(amps) ==
  CHOOSE i \in 1..Len(amps) :
    /\ \A j \in 1..Len(amps) : amps[j] <= amps[i]
    /\ \A j \in (i + 1)..Len(amps) : amps[j] < amps[i]

\* np.argmax: the first index holding the maximum.
argmax(amps) ==
  CHOOSE i \in 1..Len(amps) :
    /\ \A j \in 1..Len(amps) : amps[j] <= amps[i]
    /\ \A j \in 1..(i - 1) : amps[j] < amps[i]

\* np.clip(s, -1, 1)
clip(s) ==
  IF RatLt(s, Rat(-1, 1)) THEN Rat(-1, 1)
  ELSE IF RatLt(Rat(1, 1), s) THEN Rat(1, 1)
  ELSE s

\* sin(k degrees) * SinScale for k = 0..90, rounded.
SinScale == 10000
SinTab ==
   << 0, 175, 349, 523, 698, 872, 1045, 1219, 1392, 1564,
      1736, 1908, 2079, 2250, 2419, 2588, 2756, 2924, 3090, 3256,
      3420, 3584, 3746, 3907, 4067, 4226, 4384, 4540, 4695, 4848,
      5000, 5150, 5299, 5446, 5592, 5736, 5878, 6018, 6157, 6293,
      6428, 6561, 6691, 6820, 6947, 7071, 7193, 7314, 7431, 7547,
      7660, 7771, 7880, 7986, 8090, 8192, 8290, 8387, 8480, 8572,
      8660, 8746, 8829, 8910, 8988, 9063, 9135, 9205, 9272, 9336,
      9397, 9455, 9511, 9563, 9613, 9659, 9703, 9744, 9781, 9816,
      9848, 9877, 9903, 9925, 9945, 9962, 9976, 9986, 9994, 9998,
      10000 >>

\* np.degrees(np.arcsin(s)) as <<k>>, k whole degrees (truncated toward 0);
\* arcsin of a value outside [-1, 1] is nan, written <<>>.
\* (the table increases: the degrees are the entries after sin 0 that do
\* not exceed s)
ArcsinDegPos(s) ==
  Cardinality({m \in 1..90 : SinTab[m + 1] * s[2] <= s[1] * SinScale})

arcsin_deg(s) ==
  IF RatLt(s, Rat(-1, 1)) \/ RatLt(Rat(1, 1), s) THEN <<>>
  ELSE IF s[1] >= 0 THEN <<ArcsinDegPos(s)>>
  ELSE <<0 - ArcsinDegPos(Rat(0 - s[1], s[2]))>>

----------------------------------------------------------------------------
\* annotate_results (lines 117-175)

\* fewer points than this and nothing is annotated
MinPoints == 5
\* the half-power drop in dB
HalfPowerDrop == 3
\* spacing_ratio d / lambda = 1/2
spacing_ratio == Rat(1, 2)

half_db(amps) ==
  IF amps[argmax(amps)] = neg_inf THEN neg_inf
  ELSE amps[argmax(amps)] - HalfPowerDrop

\* (mutant of left_bound: the scan runs upward from index 0)
left_bound_upward(amps, phases) ==
  LET idx_max == argmax(amps)
      below == {i \in 1..(idx_max - 1) : amps[i] < half_db(amps)}
  IN IF below = {} THEN Rat(phases[1], 1)
     ELSE LET i == CHOOSE k \in below : \A m \in below : k <= m
          IN interp(half_db(amps), <<amps[i], amps[i + 1]>>,
                    <<phases[i], phases[i + 1]>>)

\* lines 130-135
left_bound(amps, phases) ==
  LET idx_max == argmax(amps)
      below == {i \in 1..(idx_max - 1) : amps[i] < half_db(amps)}
  IN IF below = {} THEN Rat(phases[1], 1)
     ELSE LET i == CHOOSE k \in below : \A m \in below : m <= k
          IN interp(half_db(amps), <<amps[i], amps[i + 1]>>,
                    <<phases[i], phases[i + 1]>>)

\* (mutant of right_bound: without a crossing the bound is the peak's phase)
right_bound_peak_fallback(amps, phases) ==
  LET idx_max == argmax(amps)
      below == {i \in (idx_max + 1)..Len(amps) : amps[i] < half_db(amps)}
  IN IF below = {} THEN Rat(phases[idx_max], 1)
     ELSE LET i == CHOOSE k \in below : \A m \in below : k <= m
          IN interp(half_db(amps), <<amps[i - 1], amps[i]>>,
                    <<phases[i - 1], phases[i]>>)

\* (mutant of right_bound: the scan starts at index 1, not after the peak)
right_bound_from_start(amps, phases) ==
  LET below == {i \in 2..Len(amps) : amps[i] < half_db(amps)}
  IN IF below = {} THEN Rat(phases[Len(phases)], 1)
     ELSE LET i == CHOOSE k \in below : \A m \in below : k <= m
          IN interp(half_db(amps), <<amps[i - 1], amps[i]>>,
                    <<phases[i - 1], phases[i]>>)

\* lines 136-141
right_bound(amps, phases) ==
  LET idx_max == argmax(amps)
      below == {i \in (idx_max + 1)..Len(amps) : amps[i] < half_db(amps)}
  IN IF below = {} THEN Rat(phases[Len(phases)], 1)
     ELSE LET i == CHOOSE k \in below : \A m \in below : k <= m
          IN interp(half_db(amps), <<amps[i - 1], amps[i]>>,
                    <<phases[i - 1], phases[i]>>)

\* lines 145-146: (deg2rad(phi) * lam) / (2 * pi * d), d = spacing_ratio * lam,
\* is phi / (360 * spacing_ratio)
raw_sine(phi) ==
  Rat(phi[1] * spacing_ratio[2], phi[2] * 360 * spacing_ratio[1])

\* (mutant of spatial_sine: the np.clip is left out)
spatial_sine_noclip(phi) == raw_sine(phi)

\* lines 145-146: np.clip(..., -1, 1)
spatial_sine(phi) == clip(raw_sine(phi))

\* lines 147-148 (the sine is computed once, then looked up)
theta(phi) == CHOOSE t \in {arcsin_deg(s) : s \in {spatial_sine(phi)}} : TRUE

\* what the annotation draws: the graphics items of lines 156-175
annotation(amps, phases) ==
  LET idx_max == argmax(amps)
      drawn(left, right) ==
        LET theta_l == theta(left)
            theta_r == theta(right)
        IN [ peak_db    |-> amps[idx_max],
             peak_phi   |-> phases[idx_max],
             half_db    |-> half_db(amps),
             left       |-> left,
             right      |-> right,
             hpbw_phase |-> RatSub(right, left),
             theta_l    |-> theta_l,
             theta_r    |-> theta_r,
             hpbw_theta |-> IF theta_l = <<>> \/ theta_r = <<>> THEN <<>>
                            ELSE <<theta_r[1] - theta_l[1]>> ]
  \* the two bounds are computed once, then drawn
  IN CHOOSE b \in { drawn(left, right) :
                      left \in {left_bound(amps, phases)},
                      right \in {right_bound(amps, phases)} } : TRUE

\* (mutant of annotate_results: the size test is off by one)
annotate_results_min4(amps, phases, old) ==
  IF Len(amps) < MinPoints - 1 THEN old
  ELSE <<annotation(amps, phases)>>

\* the value of the graphics handles after annotate_results()
annotate_results(amps, phases, old) ==
  IF Len(amps) < MinPoints THEN old
  ELSE <<annotation(amps, phases)>>

----------------------------------------------------------------------------
\* The sweep.

Pending == timers.update + timers.start_sweep

Init ==
  /\ cfg \in Configs
  /\ cur_phase = cfg.start
  /\ ph_hist = <<>>
  /\ amp_hist = <<>>
  /\ mode = "one_shot"
  /\ beam = <<>>
  /\ timers = [update |-> 0, start_sweep |-> 0]
  /\ alive = TRUE
  /\ ev = "init"
  /\ radio = [tx |-> <<0>>, rx |-> 0, block |-> 0, dc |-> 0]
  /\ n_annot = 0

\* (mutant of StartSweep: the histories are not cleared)
StartSweep_keep(t) ==
  /\ cur_phase' = cfg.start
  /\ UNCHANGED <<ph_hist, amp_hist>>
  /\ beam' = <<>>
  /\ n_annot' = 0
  /\ timers' = [t EXCEPT !.update = @ + 1]

\* (mutant of StartSweep: the phase is not set back)
StartSweep_nophase(t) ==
  /\ UNCHANGED cur_phase
  /\ ph_hist' = <<>>
  /\ amp_hist' = <<>>
  /\ beam' = <<>>
  /\ n_annot' = 0
  /\ timers' = [t EXCEPT !.update = @ + 1]

\* start_sweep() (lines 224-232), on top of the timers t
StartSweep(t) ==
  /\ cur_phase' = cfg.start
  /\ ph_hist' = <<>>
  /\ amp_hist' = <<>>
  /\ beam' = <<>>
  /\ n_annot' = 0
  /\ timers' = [t EXCEPT !.update = @ + 1]

\* The "One Shot" button (lines 234-237)
one_shot ==
  /\ alive
  /\ Pending < MaxPending
  /\ mode' = "one_shot"
  /\ StartSweep(timers)
  /\ ev' = "one_shot"
  /\ UNCHANGED <<cfg, alive, radio>>

\* The "Continuous" button (lines 239-242)
continuous ==
  /\ alive
  /\ Pending < MaxPending
  /\ mode' = "continuous"
  /\ StartSweep(timers)
  /\ ev' = "continuous"
  /\ UNCHANGED <<cfg, alive, radio>>

\* The timer of line 218 fires start_sweep
start_sweep ==
  /\ alive
  /\ timers.start_sweep > 0
  /\ StartSweep([timers EXCEPT !.start_sweep = @ - 1])
  /\ ev' = "start_sweep"
  /\ UNCHANGED <<cfg, mode, alive, radio>>

\* the flush loop of lines 188-189
FlushCount == 20

\* lines 183-190 when no call raises: tx with the current phase, FlushCount
\* discarded rx(), then "sdr_rx.rx() - np.mean(sdr_rx.rx())": the left
\* operand (the block) is read first, the mean comes from one more rx()
RadioCalls ==
  radio' = [tx |-> <<cur_phase>>, rx |-> FlushCount + 2,
            block |-> FlushCount + 1, dc |-> FlushCount + 2]

\* (mutant of Record: the phase is recorded after it was advanced)
Record_late(amp) ==
  /\ ph_hist' = Append(ph_hist, cur_phase + cfg.step)
  /\ amp_hist' = Append(amp_hist, amp)

\* lines 209-210
Record(amp) ==
  /\ ph_hist' = Append(ph_hist, cur_phase)
  /\ amp_hist' = Append(amp_hist, amp)

\* (mutant of Reschedule: the next update is not scheduled)
Reschedule_none == timers' = [timers EXCEPT !.update = @ - 1]

\* line 221: the timer that fired is gone, one more update is scheduled
Reschedule == timers' = timers

\* lines 216-219: annotate, and in continuous mode schedule the restart
Finish ==
  /\ beam' = annotate_results(amp_hist', ph_hist', beam)
  /\ n_annot' = n_annot + 1
  /\ timers' = [timers EXCEPT !.update = @ - 1,
                  !.start_sweep = IF mode = "continuous" THEN @ + 1 ELSE @]

\* A timer fires update() (lines 180-221) and the radio answers amp dB
update ==
  /\ alive
  /\ timers.update > 0
  /\ RadioCalls
  /\ \E amp \in AmpValues \cup {neg_inf} : Record(amp)
  /\ cur_phase' = cur_phase + cfg.step
  /\ \/ /\ cur_phase' > cfg.stop
        /\ Finish
        /\ ev' = "finished"
     \/ /\ ~(cur_phase' > cfg.stop)
        /\ Reschedule
        /\ UNCHANGED <<beam, n_annot>>
        /\ ev' = "step"
  /\ UNCHANGED <<cfg, mode, alive>>

\* A timer fires update() and a radio call (lines 183-190) raises: the
\* handler is left before line 209.  The exception reaches the Qt binding,
\* which either reports it and goes on or aborts the program.  The call
\* that raises is tx (at = 0) or the at-th rx(): here the one that reads
\* the block.
update_fail ==
  /\ alive
  /\ timers.update > 0
  /\ \E at \in {0, FlushCount + 1} :
       radio' = IF at = 0
                THEN [radio EXCEPT !.rx = 0, !.block = 0, !.dc = 0]
                ELSE [tx |-> <<cur_phase>>, rx |-> at - 1,
                      block |-> 0, dc |-> 0]
  /\ timers' = [timers EXCEPT !.update = @ - 1]
  /\ alive' \in BOOLEAN
  /\ ev' = "radio_error"
  /\ UNCHANGED <<cfg, cur_phase, ph_hist, amp_hist, mode, beam, n_annot>>

Next ==
  \/ one_shot
  \/ continuous
  \/ start_sweep
  \/ update
  \/ update_fail

Spec == Init /\ [][Next]_vars

\* One-shot sweeps left alone: "One Shot" is clicked only when nothing is
\* pending, "Continuous" is never clicked and no radio call raises.  The Qt
\* event loop runs every timer that is due, so a pending update is run in
\* the end.
one_shot_idle == Pending = 0 /\ one_shot

LiveNext ==
  \/ one_shot_idle
  \/ update

LiveSpec == Init /\ [][LiveNext]_vars /\ WF_vars(update)

----------------------------------------------------------------------------
\* Properties.

\* the phases start, start + step, ... up to the last one <= stop
SweepPhases(c) ==
  [i \in 1..((c.stop - c.start) \div c.step + 1) |-> c.start + (i - 1) * c.step]

\* the indices below / above the peak whose reading is under the half-power line
BelowLeft ==
  {i \in 1..(argmax(amp_hist) - 1) : amp_hist[i] < half_db(amp_hist)}
BelowRight ==
  {i \in (argmax(amp_hist) + 1)..Len(amp_hist) : amp_hist[i] < half_db(amp_hist)}
FirstLeft == CHOOSE k \in BelowLeft : \A m \in BelowLeft : m <= k
FirstRight == CHOOSE k \in BelowRight : \A m \in BelowRight : k <= m

\* C1: when a one-shot sweep finishes, the recorded phases are exactly
\* start, start + step, ... up to the last value <= stop, whatever clicks
\* and steps came before.
C1_OneShotPhases ==
  (ev = "finished" /\ mode = "one_shot") => ph_hist = SweepPhases(cfg)

\* C2: at most one callback (step or restart) is ever scheduled and not yet
\* run.
C2_SinglePending == Pending <= 1

\* C3: in continuous mode a finished sweep leaves a restart scheduled, a
\* scheduled restart goes away only by running, and when it runs the new
\* sweep begins with both histories empty and the phase at the start value.
C3_ContinuousRestart ==
  [][ /\ (ev' = "finished" /\ mode' = "continuous") => timers'.start_sweep > 0
      /\ timers'.start_sweep < timers.start_sweep => ev' = "start_sweep"
      /\ ev' = "start_sweep" =>
           (ph_hist' = <<>> /\ amp_hist' = <<>> /\ cur_phase' = cfg.start) ]_vars

C3_Witness ==
  /\ ev = "start_sweep"
  /\ mode = "continuous"
  /\ ph_hist = <<>>
  /\ cur_phase = cfg.start

\* C4: once a one-shot sweep has finished, no step and no restart is
\* pending.
C4_OneShotStays ==
  (ev = "finished" /\ mode = "one_shot") => Pending = 0

\* C5: when a reading above the peak is under the half-power line and the
\* reading before it is strictly over the line, the right bound lies
\* strictly between the phases of the two.
C5_RightInterpolated ==
  (beam # <<>> /\ BelowRight # {}
     /\ amp_hist[FirstRight - 1] > half_db(amp_hist)) =>
    /\ RatLt(Rat(ph_hist[FirstRight - 1], 1), beam[1].right)
    /\ RatLt(beam[1].right, Rat(ph_hist[FirstRight], 1))

\* C6: a step whose radio call fails records no sample, does not advance
\* the phase, and leaves nothing scheduled while the program runs on.
C6_FailureStops ==
  [][ ev' = "radio_error" =>
        /\ ph_hist' = ph_hist
        /\ amp_hist' = amp_hist
        /\ cur_phase' = cur_phase
        /\ (alive' => Pending' = 0) ]_vars

\* C7: a sweep that finishes with fewer than 5 samples has no annotation,
\* and finishes as any other: in continuous mode the restart is scheduled.
C7_TooFewPoints ==
  (ev = "finished" /\ Len(amp_hist) < 5) =>
    /\ beam = <<>>
    /\ (mode = "continuous" => timers.start_sweep > 0)

C7_Witness ==
  /\ ev = "finished"
  /\ Len(amp_hist) = 4
  /\ mode = "continuous"

\* C8: both angle-domain bounds are numbers within [-90, 90] degrees, also
\* when the phase bound makes the raw arcsine argument leave [-1, 1].
C8_AngleClamped ==
  beam # <<>> =>
    /\ beam[1].theta_l # <<>> /\ beam[1].theta_l[1] \in -90..90
    /\ beam[1].theta_r # <<>> /\ beam[1].theta_r[1] \in -90..90

C8_Witness ==
  /\ beam # <<>>
  /\ RatLt(raw_sine(beam[1].left), Rat(-1, 1))
  /\ RatLt(Rat(1, 1), raw_sine(beam[1].right))
  /\ beam[1].theta_l = <<-90>>
  /\ beam[1].theta_r = <<90>>

\* C10: with i the first index below the peak (scanning downward) whose
\* reading is under the half-power line, the left bound is the point of the
\* segment from sample i to sample i+1 where the power equals the line: it
\* lies in (phase[i], phase[i+1]].  When reading i is -inf that point is
\* phase[i+1].
C10_LeftInterpolated ==
  (beam # <<>> /\ BelowLeft # {}) =>
    LET i == FirstLeft
        left == beam[1].left
    IN /\ RatLt(Rat(ph_hist[i], 1), left)
       /\ RatLe(left, Rat(ph_hist[i + 1], 1))
       /\ IF amp_hist[i] = neg_inf
          THEN RatEq(left, Rat(ph_hist[i + 1], 1))
          ELSE (left[1] - ph_hist[i] * left[2])
                 * (amp_hist[i + 1] - amp_hist[i])
               = (half_db(amp_hist) - amp_hist[i])
                   * (ph_hist[i + 1] - ph_hist[i]) * left[2]

C10_Witness ==
  /\ beam # <<>>
  /\ BelowLeft # {}
  /\ Cardinality(BelowLeft) >= 2
  /\ amp_hist[FirstLeft] # neg_inf
  /\ RatLt(beam[1].left, Rat(ph_hist[FirstLeft + 1], 1))

\* C11: when no reading on one side of the peak is under the half-power
\* line (the peak may be the first or the last sample), the bound on that
\* side is the sweep's boundary phase: the first sample's on the left, the
\* last sample's on the right.
C11_BoundaryFallback ==
  beam # <<>> =>
    /\ BelowLeft = {} => beam[1].left = Rat(ph_hist[1], 1)
    /\ BelowRight = {} => beam[1].right = Rat(ph_hist[Len(ph_hist)], 1)

C11_Witness ==
  /\ beam # <<>>
  /\ BelowLeft = {}
  /\ BelowRight = {}
  /\ argmax(amp_hist) < Len(amp_hist)
  /\ beam[1].right = Rat(ph_hist[Len(ph_hist)], 1)

\* C12: a step that ran to its end transmitted its phase, then made exactly
\* FlushCount discarded rx() calls and exactly one more, and the DC estimate
\* comes from the capture that is analysed.
C12_RadioOrder ==
  ev \in {"step", "finished"} =>
    /\ radio.tx = <<ph_hist[Len(ph_hist)]>>
    /\ radio.rx = FlushCount + 1
    /\ radio.block = FlushCount + 1
    /\ radio.dc = radio.block

\* C13: annotate_results runs at most once per sweep, and only once the
\* phase has passed stop.
C13_AnnotateOnce ==
  /\ n_annot <= 1
  /\ n_annot >= 1 => cur_phase > cfg.stop

\* C14: every start (a click or the automatic restart) sets the phase to
\* the start value, empties both histories and drops the annotation, and
\* the first recorded sample always has the start phase.
C14_StartResets ==
  /\ [](ph_hist # <<>> => ph_hist[1] = cfg.start)
  /\ [][ ev' \in {"one_shot", "continuous", "start_sweep"} =>
           /\ cur_phase' = cfg.start
           /\ ph_hist' = <<>>
           /\ amp_hist' = <<>>
           /\ beam' = <<>> ]_vars

\* a start clicked after a sweep ran to its end: the last update put the
\* sweep's final phase on the air
C14_Witness ==
  /\ ev = "one_shot"
  /\ radio.rx = FlushCount + 2
  /\ radio.tx[1] + cfg.step > cfg.stop
  /\ cur_phase = cfg.start
  /\ ph_hist = <<>>
  /\ beam = <<>>

\* C15: the annotated peak is the first sample holding the maximum reading:
\* peak_db and peak_phi are its values and the half-power line is 3 dB
\* under it.
C15_PeakFirstMax ==
  beam # <<>> =>
    \E i \in 1..Len(amp_hist) :
      /\ \A j \in 1..Len(amp_hist) : amp_hist[j] <= amp_hist[i]
      /\ \A j \in 1..(i - 1) : amp_hist[j] < amp_hist[i]
      /\ beam[1].peak_db = amp_hist[i]
      /\ beam[1].peak_phi = ph_hist[i]
      /\ (amp_hist[i] # neg_inf => beam[1].half_db = amp_hist[i] - 3)

C15_Witness ==
  /\ beam # <<>>
  /\ beam[1].peak_db # neg_inf
  /\ \E i, j \in 1..Len(amp_hist) :
       /\ i < j
       /\ amp_hist[i] = beam[1].peak_db
       /\ amp_hist[j] = beam[1].peak_db
       /\ beam[1].peak_phi = ph_hist[i]

\* C16: every recorded reading is finite, also the one of a silent capture.
C16_FiniteReading ==
  \A i \in 1..Len(amp_hist) : amp_hist[i] # neg_inf

\* C17: every recorded phase and every phase put on the air by a step lies
\* in [start, stop].
C17_PhasesInRange ==
  /\ \A i \in 1..Len(ph_hist) :
       cfg.start <= ph_hist[i] /\ ph_hist[i] <= cfg.stop
  /\ cfg.start <= radio.tx[1] /\ radio.tx[1] <= cfg.stop

\* C18: between handlers the two histories have the same length and the
\* phase is start + step * (number of samples); a step appends one sample,
\* with the phase it found, and advances the phase by step.
C18_PhaseCounts ==
  /\ [](/\ Len(ph_hist) = Len(amp_hist)
        /\ cur_phase = cfg.start + cfg.step * Len(ph_hist))
  /\ [][ ev' \in {"step", "finished"} =>
           /\ ph_hist' = Append(ph_hist, cur_phase)
           /\ Len(amp_hist') = Len(amp_hist) + 1
           /\ cur_phase' = cur_phase + cfg.step ]_vars

C18_Witness ==
  /\ ev = "step"
  /\ Len(ph_hist) = 2
  /\ cur_phase = cfg.start + 2 * cfg.step

\* C19: the annotated bounds satisfy first phase <= left <= peak phase <=
\* right <= last phase, and both beam widths are >= 0.
C19_BoundsOrdered ==
  beam # <<>> =>
    LET b == beam[1]
    IN /\ RatLe(Rat(ph_hist[1], 1), b.left)
       /\ RatLe(b.left, Rat(b.peak_phi, 1))
       /\ RatLe(Rat(b.peak_phi, 1), b.right)
       /\ RatLe(b.right, Rat(ph_hist[Len(ph_hist)], 1))
       /\ RatLe(Rat(0, 1), b.hpbw_phase)
       /\ b.hpbw_theta # <<>> /\ b.hpbw_theta[1] >= 0

C19_Witness ==
  /\ beam # <<>>
  /\ BelowLeft # {}
  /\ BelowRight # {}
  /\ RatLt(beam[1].left, Rat(beam[1].peak_phi, 1))
  /\ RatLt(Rat(beam[1].peak_phi, 1), beam[1].right)

\* C20: when every due timer is run, no radio call fails and no start is
\* clicked in between, a sweep started by "One Shot" runs to its end: the
\* phase passes stop and annotate_results has run.
C20_Completed ==
  /\ ev = "finished"
  /\ mode = "one_shot"
  /\ cur_phase > cfg.stop
  /\ n_annot >= 1

C20_OneShotCompletes == (ev = "one_shot") ~> C20_Completed

C20_Witness ==
  /\ C20_Completed
  /\ n_annot = 1
  /\ ph_hist = SweepPhases(cfg)

====
